---- MODULE Spec2Model ----
(***************************************************************************)
(* Custom Fear & Greed Index (app/main.py): the percentile estimator, the  *)
(* six sub-scores, the composite scorer compute_fng and the three routes   *)
(* that call it (/api/fng, /api/fng-components, /api/fng/quad).            *)
(*                                                                         *)
(* Numbers.  A Python float is modelled as a record that is either NaN,    *)
(* +Infinity, -Infinity or an exact rational n/d in lowest terms.          *)
(* Rounding error of binary floating point is not modelled: sums and       *)
(* products are exact.                                                     *)
(***************************************************************************)
EXTENDS Integers, Sequences, FiniteSets, TLC

\* ------------------------------------------------------------------------
\* Bounds of the model
\* ------------------------------------------------------------------------
MaxLen == 3      \* longest sample handed to percentile in SpecPct
MaxVal == 1      \* finite sample values in SpecPct are -1 .. MaxVal

\* ------------------------------------------------------------------------
\* Floats
\* ------------------------------------------------------------------------
Abs(i) == IF i < 0 THEN -i ELSE i

RECURSIVE GCD(_, _)
GCD(a, b) == IF b = 0 THEN a ELSE GCD(b, a % b)

NaN  == [k |-> "nan",  n |-> 0, d |-> 1]
PInf == [k |-> "pinf", n |-> 0, d |-> 1]
NInf == [k |-> "ninf", n |-> 0, d |-> 1]

\* n/d, d # 0, in lowest terms with a positive denominator
Fin(n, d) ==
    LET g == GCD(Abs(n), Abs(d))
        s == IF d < 0 THEN -1 ELSE 1
    IN  [k |-> "fin", n |-> (s * n) \div g, d |-> (s * d) \div g]

I(i) == Fin(i, 1)

IsFin(a) == a.k = "fin"
IsNaN(a) == a.k = "nan"
IsInf(a) == a.k \in {"pinf", "ninf"}

\* a <= b as IEEE-754 compares: FALSE as soon as one side is NaN
Leq(a, b) ==
    CASE IsNaN(a) \/ IsNaN(b) -> FALSE
      [] a.k = "ninf"         -> TRUE
      [] b.k = "pinf"         -> TRUE
      [] a.k = "pinf"         -> FALSE
      [] b.k = "ninf"         -> FALSE
      [] OTHER                -> a.n * b.d <= b.n * a.d

\* a < b as IEEE-754 compares
Lt(a, b) == Leq(a, b) /\ a # b

\* a + b, a - b, a * b on finite operands; NaN is contagious
Add(a, b) ==
    IF IsFin(a) /\ IsFin(b)
    THEN LET g == GCD(a.d, b.d)
         IN  Fin(a.n * (b.d \div g) + b.n * (a.d \div g), (a.d \div g) * b.d)
    ELSE NaN

Neg(a) == IF IsFin(a) THEN Fin(-a.n, a.d) ELSE NaN

Sub(a, b) == Add(a, Neg(b))

Mul(a, b) ==
    IF IsFin(a) /\ IsFin(b)
    THEN LET g1 == GCD(Abs(a.n), b.d)
             g2 == GCD(Abs(b.n), a.d)
         IN  Fin((a.n \div g1) * (b.n \div g2), (a.d \div g2) * (b.d \div g1))
    ELSE NaN

\* np.clip(a, lo, hi): minimum(maximum(a, lo), hi); a NaN stays a NaN
Clip(a, lo, hi) ==
    IF IsNaN(a) THEN NaN
    ELSE IF Lt(a, lo) THEN lo
    ELSE IF Lt(hi, a) THEN hi
    ELSE a

Half == Fin(1, 2)

\* ------------------------------------------------------------------------
\* percentile(series_or_array, x)
\* ------------------------------------------------------------------------
CountLeq(arr, x) == Cardinality({i \in 1..Len(arr) : Leq(arr[i], x)})

\* percentile with "<" where the code has "<=": ties no longer count
percentileStrict(arr, x) ==
    IF Len(arr) = 0 THEN Half
    ELSE IF IsNaN(x) \/ IsInf(x) THEN Half
    ELSE Fin(Cardinality({i \in 1..Len(arr) : Lt(arr[i], x)}), Len(arr))

percentile(arr, x) ==
    IF Len(arr) = 0 THEN Half
    ELSE IF IsNaN(x) \/ IsInf(x) THEN Half
    ELSE Fin(CountLeq(arr, x), Len(arr))

\* ------------------------------------------------------------------------
\* Program constants
\* ------------------------------------------------------------------------
RsiWindow   == 14    \* RSIIndicator(df["c"], window=14)
RollWindow  == 30    \* rets.rolling(30), df["v"].rolling(30), oi.rolling(30, ...)
VolTail     == 180   \* vol_hist[-180:]
OiMinPeriods == 5    \* oi.rolling(30, min_periods=5)

VALID_TF == {"15m", "1h", "4h", "1d"}

\* ------------------------------------------------------------------------
\* Sequences of numbers
\* ------------------------------------------------------------------------
\* s[a] + ... + s[b]
RECURSIVE SumRange(_, _, _)
SumRange(s, a, b) == IF a > b THEN 0 ELSE s[b] + SumRange(s, a, b - 1)

\* s[a]^2 + ... + s[b]^2
RECURSIVE SumSquares(_, _, _)
SumSquares(s, a, b) == IF a > b THEN 0 ELSE s[b] * s[b] + SumSquares(s, a, b - 1)

Last(s) == s[Len(s)]

\* s[-k:]
TailSlice(s, k) == IF Len(s) > k THEN SubSeq(s, Len(s) - k + 1, Len(s)) ELSE s

NotNaN(a) == ~IsNaN(a)

\* Series.dropna()
dropna(s) == SelectSeq(s, NotNaN)

CountBelow(w, x) == Cardinality({i \in 1..Len(w) : w[i] < x})
CountUpTo(w, x)  == Cardinality({i \in 1..Len(w) : w[i] <= x})

\* the k-th smallest element of the integer sequence w, 1 <= k <= Len(w)
KthSmallest(w, k) ==
    CHOOSE x \in {w[i] : i \in 1..Len(w)} : CountBelow(w, x) < k /\ k <= CountUpTo(w, x)

\* twice the median of the integer sequence w (the median itself may be a half)
TwiceMedian(w) ==
    LET m == Len(w)
    IN  IF m % 2 = 1 THEN 2 * KthSmallest(w, (m + 1) \div 2)
        ELSE KthSmallest(w, m \div 2) + KthSmallest(w, m \div 2 + 1)

\* a / b as numpy divides floats: x/0 is +-inf, 0/0 is NaN
Div(a, b) ==
    IF ~(IsFin(a) /\ IsFin(b)) THEN NaN
    ELSE IF b.n = 0 THEN (IF a.n = 0 THEN NaN ELSE IF a.n > 0 THEN PInf ELSE NInf)
    ELSE Fin(a.n * b.d, a.d * b.n)

Hundred == I(100)

\* ------------------------------------------------------------------------
\* compute_base_scores(df)
\*
\* df.c holds each close as its exponent on a geometric price grid
\* (close = q^c for a fixed q > 1), so that log(close) is c in units of
\* ln q and df["ret"] = np.log(df["c"]).diff() is the difference of
\* consecutive exponents.  df.v holds the volumes.
\* ------------------------------------------------------------------------
\* df["ret"].dropna(): the first row's return is NaN and is dropped
Rets(df) ==
    IF Len(df.c) < 2 THEN <<>>
    ELSE [i \in 1..(Len(df.c) - 1) |-> df.c[i + 1] - df.c[i]]

\* Rolling standard deviations are compared only with each other, so the
\* one of the window s[a..b] of m returns is kept as m*sum(x^2) - sum(x)^2,
\* which orders windows exactly as the sample standard deviation does.
ScaledVar(s, a, b) ==
    LET sum == SumRange(s, a, b)
    IN  (b - a + 1) * SumSquares(s, a, b) - sum * sum

\* rets.rolling(30).std().dropna(): one value per full window of 30 returns
VolHist(rets) ==
    IF Len(rets) < RollWindow THEN <<>>
    ELSE [j \in 1..(Len(rets) - RollWindow + 1) |->
              I(ScaledVar(rets, j, j + RollWindow - 1))]

\* (df["v"] / df["v"].rolling(30).median()).dropna()
VmHist(df) ==
    IF Len(df.v) < RollWindow THEN <<>>
    ELSE dropna([j \in 1..(Len(df.v) - RollWindow + 1) |->
                    Div(I(2 * df.v[j + RollWindow - 1]),
                        I(TwiceMedian(SubSeq(df.v, j, j + RollWindow - 1))))])

\* What RSIIndicator(df["c"], window=14).rsi().iloc[-1] can be.  The ta
\* library smooths gains and losses with ewm(alpha=1/14, min_periods=14):
\* fewer than 14 closes leave both averages, and the RSI, NaN; an average
\* loss of 0 gives 100; otherwise 100 - 100/(1 + gain/loss), which is 0 when
\* nothing was gained and strictly inside (0, 100) else.  The value inside is
\* left open: any of RsiInside (20 is clipped to a score of 0; 42, 58 and
\* 59.6 score 30, 70 and 74).
RsiInside == {I(20), I(42), I(58), Fin(298, 5)}

RsiLast(df) ==
    LET r == Rets(df)
    IN  IF Len(df.c) < RsiWindow THEN {NaN}
        ELSE IF \A i \in 1..Len(r) : r[i] >= 0 THEN {Hundred}
        ELSE IF \A i \in 1..Len(r) : r[i] <= 0 THEN {I(0)}
        ELSE RsiInside

\* score_rsi
ScoreRsi(rsi) ==
    Clip(Mul(Div(Sub(rsi, I(30)), I(40)), Hundred), I(0), Hundred)

\* p_vol
PVol(rets) ==
    LET vol_hist == VolHist(rets)
    IN  IF Len(vol_hist) > 0
        THEN percentile(TailSlice(vol_hist, VolTail), Last(vol_hist))
        ELSE Half

\* score_volx without the direction adjustment
ScoreVolxUnadjusted(p_vol, r1) == Mul(Sub(I(1), p_vol), Hundred)

\* score_volx from p_vol and the latest return r1
ScoreVolx(p_vol, r1) ==
    LET score_vol == Mul(Sub(I(1), p_vol), Hundred)
    IN  Add(Mul(Half, score_vol),
            Mul(Half, IF r1 < 0 THEN Sub(Hundred, score_vol) ELSE score_vol))

\* compute_base_scores(df), rsi being the library's RSI of the last row.
\* An empty df["ret"].dropna() (0 or 1 candles) makes .iloc[-1] raise.
compute_base_scores(df, rsi) ==
    LET rets     == Rets(df)
        r1       == Last(rets)
        vol_hist == VolHist(rets)
        vm_hist  == VmHist(df)
        cur_vm   == IF Len(vm_hist) > 0 THEN Last(vm_hist) ELSE I(1)
    IN  IF Len(rets) = 0 THEN [raised |-> TRUE]
        ELSE [raised       |-> FALSE,
              rsi          |-> ScoreRsi(rsi),
              mom          |-> Mul(percentile([i \in 1..Len(rets) |-> I(rets[i])], I(r1)),
                                   Hundred),
              vol          |-> ScoreVolx(PVol(rets), r1),
              volm         |-> Mul(percentile(vm_hist, cur_vm), Hundred),
              rsi_raw      |-> rsi,
              ret_last     |-> I(r1),
              vol_cur      |-> IF Len(vol_hist) > 0 THEN Last(vol_hist) ELSE I(0),
              vol_mult_cur |-> cur_vm]

\* ------------------------------------------------------------------------
\* compute_funding_score: from the fetched current rate and history
\* ------------------------------------------------------------------------
compute_funding_score(cur, hist) ==
    LET p == IF Len(hist) > 0 THEN percentile(hist, cur) ELSE Half
    IN  [score |-> Mul(p, Hundred), cur |-> cur, p |-> p]

\* the except branch of compute_fng around compute_funding_score
FundingFallback == [score |-> I(50), cur |-> I(0), p |-> Half]

\* ------------------------------------------------------------------------
\* compute_oi_score: from the fetched frame; oi is its sumOpenInterest column
\* ------------------------------------------------------------------------
\* oi.rolling(30, min_periods=5).median().iloc[-1]
OiMedian(oi) ==
    IF Len(oi) < OiMinPeriods THEN NaN
    ELSE Div(I(TwiceMedian(TailSlice(oi, RollWindow))), I(2))

\* ((oi - oi.shift(1)) / oi.shift(1)).dropna()
OiDeltaHist(oi) ==
    IF Len(oi) < 2 THEN <<>>
    ELSE dropna([i \in 1..(Len(oi) - 1) |-> Div(I(oi[i + 1] - oi[i]), I(oi[i]))])

compute_oi_score(oi) ==
    IF Len(oi) = 0
    THEN [oi |-> I(50), oi_delta |-> I(50), oi_cur |-> I(0)]
    ELSE LET oi_cur  == I(Last(oi))
             p_oi    == percentile([i \in 1..Len(oi) |-> I(oi[i])], oi_cur)
             med     == OiMedian(oi)
             d_rel   == IF Lt(I(0), med) THEN Div(Sub(oi_cur, med), med) ELSE I(0)
             d_hist  == OiDeltaHist(oi)
             p_delta == IF Len(d_hist) > 0 THEN percentile(d_hist, d_rel) ELSE Half
             score_oi  == Mul(p_oi, Hundred)
             score_oid == Mul(p_delta, Hundred)
         IN  [oi           |-> Add(Mul(Fin(6, 10), score_oi), Mul(Fin(4, 10), score_oid)),
              oi_cur       |-> oi_cur,
              oi_p         |-> p_oi,
              oi_delta     |-> score_oid,
              oi_delta_val |-> d_rel,
              oi_delta_p   |-> p_delta]

\* a neutral pack whose score is 0 instead of 50
OiFallbackZero ==
    [oi |-> I(0), oi_cur |-> I(0), oi_p |-> Half,
     oi_delta |-> I(50), oi_delta_val |-> I(0), oi_delta_p |-> Half]

\* the except branch of compute_fng around compute_oi_score
OiFallback ==
    [oi |-> I(50), oi_cur |-> I(0), oi_p |-> Half,
     oi_delta |-> I(50), oi_delta_val |-> I(0), oi_delta_p |-> Half]

\* ------------------------------------------------------------------------
\* compute_fng: weights, composite, label
\* ------------------------------------------------------------------------
w == [rsi |-> Fin(25, 100), mom |-> Fin(20, 100), vol |-> Fin(15, 100),
      volm |-> Fin(15, 100), funding |-> Fin(15, 100), oi |-> Fin(10, 100)]

WeightedSum(base, score_funding, score_oi) ==
    Add(Add(Add(Add(Add(Mul(w.rsi, base.rsi),
                        Mul(w.mom, base.mom)),
                    Mul(w.vol, base.vol)),
                Mul(w.volm, base.volm)),
            Mul(w.funding, score_funding)),
        Mul(w.oi, score_oi))

Composite(base, score_funding, score_oi) ==
    Clip(WeightedSum(base, score_funding, score_oi), I(0), Hundred)

\* the label with "fng < 55" where the code has "fng <= 55"
LabelStrict55(fng) ==
    IF Lt(fng, I(25)) THEN "Extreme Fear"
    ELSE IF Lt(fng, I(45)) THEN "Fear"
    ELSE IF Lt(fng, I(55)) THEN "Neutral"
    ELSE IF Lt(fng, I(76)) THEN "Greed"
    ELSE "Extreme Greed"

Label(fng) ==
    IF Lt(fng, I(25)) THEN "Extreme Fear"
    ELSE IF Lt(fng, I(45)) THEN "Fear"
    ELSE IF Leq(fng, I(55)) THEN "Neutral"
    ELSE IF Lt(fng, I(76)) THEN "Greed"
    ELSE "Extreme Greed"

\* ------------------------------------------------------------------------
\* State
\* ------------------------------------------------------------------------
VARIABLES
    pct,       \* a call of percentile: its arguments and, once made, its results
    pc,        \* where the request, or the call of compute_fng, stands
    call,      \* the arguments of the running compute_fng: symbol, tf
    df,        \* compute_fng's df: the frame klines returned
    base,      \* compute_fng's base: what compute_base_scores returned
    funding,   \* compute_fng's score_funding, funding_cur, funding_p
    oi_pack,   \* compute_fng's oi_pack
    result,    \* what compute_fng returned: fng, label, components
    fetched,   \* the exchange endpoints this request has called, in order
    outcome,   \* how each data source answered the running compute_fng
    req,       \* the HTTP request: route, symbol, tf, X-Install-Id
    supabase,  \* whether the Supabase client was created at start-up
    gate,      \* what consume_pair_access_or_raise did for this request
    values,    \* fng_quad's values, one entry per timeframe done
    resp       \* the HTTP response, once there is one

vars == <<pct, pc, call, df, base, funding, oi_pack, result, fetched, outcome,
          req, supabase, gate, values, resp>>

fngVars == <<call, df, base, funding, oi_pack, result, fetched, outcome>>

routeVars == <<req, supabase, gate, values, resp>>

Unset == [set |-> FALSE]

NoPct == [at |-> "idle", sample |-> <<>>, x |-> NaN, y |-> NaN, rx |-> NaN, ry |-> NaN]

NoOutcome == [klines |-> "-", base |-> "-", funding |-> "-", oi |-> "-"]

NoResp == [status |-> 0, kind |-> "-"]

\* ------------------------------------------------------------------------
\* What the exchange may answer
\* ------------------------------------------------------------------------
MaxStep   == 1   \* the latest candle's return is in -MaxStep .. MaxStep
Extra     == 2   \* candle counts go up to RollWindow + Extra
MaxHist   == 2   \* the funding history holds at most MaxHist rates
MaxOi     == 1   \* the latest open interest is in 0 .. MaxOi

Symbols == {"SOLUSDT", "sol/usdt"}

\* the symbols the exchange lists; any other is answered with HTTP 400
Listed == {"SOLUSDT"}

\* none, too few for a return, too few for the RSI, just enough for it,
\* around the rolling window, and one more than vol_hist[-180:] keeps
CandleCounts ==
    {0, 1, 2, RsiWindow - 1, RsiWindow} \cup (RollWindow .. (RollWindow + Extra))
        \cup {VolTail + RollWindow + 1}

\* the price path and the volume path of the candles before the latest
Shapes == {<<"flat", "none">>, <<"up", "const">>, <<"wave", "wave">>}

CloseAt(shape, i) ==
    CASE shape = "flat" -> 0
      [] shape = "up"   -> i
      [] shape = "wave" -> <<0, -1, 1, 3, 2>>[((i - 1) % 5) + 1]

VolumeAt(shape, i) ==
    CASE shape = "none"  -> 0
      [] shape = "const" -> 1
      [] shape = "wave"  -> (i % 3) + 1

\* n candles: the first n-1 follow the shape, the latest moves by lastStep
\* from the one before it and trades lastVol
Frame(n, shape, lastStep, lastVol) ==
    [c |-> [i \in 1..n |-> IF i = n /\ n > 1 THEN CloseAt(shape[1], n - 1) + lastStep
                           ELSE CloseAt(shape[1], i)],
     v |-> [i \in 1..n |-> IF i = n THEN lastVol ELSE VolumeAt(shape[2], i)]]

\* the latest candle trades nothing or one unit
Frames ==
    {Frame(n, s, a, b) : n \in CandleCounts, s \in Shapes,
                         a \in -MaxStep..MaxStep, b \in {0, 1}}

\* funding rates, in units of the smallest one
Rates == {I(-1), I(0)}

\* (lastFundingRate, funding history): a history of m rates, the first k of
\* them -1 and the others 0
FundingFeeds ==
    {<<cur, [i \in 1..m |-> IF i <= k THEN I(-1) ELSE I(0)]>> :
        cur \in Rates, m \in 0..MaxHist, k \in 0..MaxHist}

OiCounts == {1, OiMinPeriods - 1, OiMinPeriods, RollWindow + 1}

OiAt(shape, i) ==
    CASE shape = "zero" -> 0
      [] shape = "ramp" -> i

\* the sumOpenInterest column of a non-empty open-interest history
OiFrames ==
    {[i \in 1..n |-> IF i = n THEN last ELSE OiAt(shape, i)] :
        n \in OiCounts, shape \in {"zero", "ramp"}, last \in 0..MaxOi}

\* ------------------------------------------------------------------------
\* compute_fng, step by step
\* ------------------------------------------------------------------------
\* df = klines(symbol, interval=tf, limit=500): raise_for_status raises on a
\* transport or HTTP error, and nothing in compute_fng catches it
Klines(frames) ==
    /\ pc = "klines"
    /\ fetched' = Append(fetched, "klines")
    /\ \/ /\ pc' = "raised"
          /\ outcome' = [outcome EXCEPT !.klines = "raised"]
          /\ df' = df
       \/ /\ call.symbol \in Listed
          /\ \E f \in frames : df' = f
          /\ pc' = "base"
          /\ outcome' = [outcome EXCEPT !.klines = "ok"]
    /\ UNCHANGED <<pct, call, base, funding, oi_pack, result, routeVars>>

\* base = compute_base_scores(df)
BaseScores ==
    /\ pc = "base"
    /\ \E rsi \in RsiLast(df) :
         LET b == compute_base_scores(df, rsi)
         IN  IF b.raised
             THEN /\ pc' = "raised"
                  /\ outcome' = [outcome EXCEPT !.base = "raised"]
                  /\ base' = base
             ELSE /\ pc' = "funding"
                  /\ outcome' = [outcome EXCEPT !.base = "ok"]
                  /\ base' = b
    /\ UNCHANGED <<pct, call, df, funding, oi_pack, result, fetched, routeVars>>

\* try: compute_funding_score(symbol)  except Exception: 50.0, 0.0, 0.5
FundingScore(feeds) ==
    /\ pc = "funding"
    /\ \/ \* get_funding_now raises
          /\ fetched' = Append(fetched, "funding_now")
          /\ funding' = FundingFallback
          /\ outcome' = [outcome EXCEPT !.funding = "raised"]
       \/ \* get_funding_hist raises
          /\ fetched' = fetched \o <<"funding_now", "funding_hist">>
          /\ funding' = FundingFallback
          /\ outcome' = [outcome EXCEPT !.funding = "raised"]
       \/ /\ fetched' = fetched \o <<"funding_now", "funding_hist">>
          /\ \E feed \in feeds : funding' = compute_funding_score(feed[1], feed[2])
          /\ outcome' = [outcome EXCEPT !.funding = "ok"]
    /\ pc' = "oi"
    /\ UNCHANGED <<pct, call, df, base, oi_pack, result, routeVars>>

\* try: compute_oi_score(symbol, tf)  except Exception: the neutral pack.
\* get_oi_hist raises on a transport or HTTP error and on an error payload.
\* An empty payload makes a frame without a "timestamp" column, on which
\* get_oi_hist raises as well; compute_oi_score's own guard for an empty
\* frame is modelled too, as the other way an empty history is answered.
OiScore(frames) ==
    /\ pc = "oi"
    /\ fetched' = Append(fetched, "oi_hist")
    /\ \/ /\ oi_pack' = OiFallback
          /\ outcome' = [outcome EXCEPT !.oi = "raised"]
       \/ /\ oi_pack' = OiFallback
          /\ outcome' = [outcome EXCEPT !.oi = "empty"]
       \/ /\ oi_pack' = compute_oi_score(<<>>)
          /\ outcome' = [outcome EXCEPT !.oi = "empty"]
       \/ /\ \E f \in frames : oi_pack' = compute_oi_score(f)
          /\ outcome' = [outcome EXCEPT !.oi = "ok"]
    /\ pc' = "combine"
    /\ UNCHANGED <<pct, call, df, base, funding, result, routeVars>>

\* the weighted sum, the clamp, the label and the components
Combine ==
    /\ pc = "combine"
    /\ LET fng == Composite(base, funding.score, oi_pack.oi)
       IN  result' =
             [set    |-> TRUE,
              fng    |-> fng,
              label  |-> Label(fng),
              scores |-> [rsi |-> base.rsi, mom |-> base.mom, vol |-> base.vol,
                          volm |-> base.volm, funding |-> funding.score,
                          oi |-> oi_pack.oi],
              raw    |-> [rsi_raw |-> base.rsi_raw, ret_last |-> base.ret_last,
                          vol_cur |-> base.vol_cur, vol_mult_cur |-> base.vol_mult_cur,
                          funding_now |-> funding.cur, funding_p |-> funding.p,
                          oi_pack |-> oi_pack],
              weights |-> w]
    /\ pc' = "returned"
    /\ UNCHANGED <<pct, call, df, base, funding, oi_pack, fetched, outcome, routeVars>>

\* ------------------------------------------------------------------------
\* SpecScore: one call of compute_fng against every answer of the exchange
\* ------------------------------------------------------------------------
ScoreInit ==
    /\ pct = NoPct
    /\ pc = "klines"
    /\ call \in [symbol : Symbols, tf : {"1d"}]
    /\ df = Unset
    /\ base = Unset
    /\ funding = Unset
    /\ oi_pack = Unset
    /\ result = Unset
    /\ fetched = <<>>
    /\ outcome = NoOutcome
    /\ req = Unset
    /\ supabase = FALSE
    /\ gate = "-"
    /\ values = <<>>
    /\ resp = NoResp

ScoreNext ==
    \/ Klines(Frames)
    \/ BaseScores
    \/ FundingScore(FundingFeeds)
    \/ OiScore(OiFrames)
    \/ Combine

SpecScore == ScoreInit /\ [][ScoreNext]_vars

\* ------------------------------------------------------------------------
\* The routes
\* ------------------------------------------------------------------------
\* round(x, nd): to the nearest multiple of 10^-nd, a tie to the even one
\* (Python rounds the binary float; here the exact rational is rounded)
Round(x, nd) ==
    IF ~IsFin(x) THEN x
    ELSE LET s == IF nd = 1 THEN 10 ELSE 100
             y == Mul(x, I(s))
             q == y.n \div y.d
             r == y.n - q * y.d
             up == 2 * r > y.d \/ (2 * r = y.d /\ q % 2 = 1)
         IN  Fin(IF up THEN q + 1 ELSE q, s)

tfs == <<"15m", "1h", "4h", "1d">>

\* the dict /api/fng returns
FngBody ==
    [coin  |-> req.symbol,
     tf    |-> req.tf,
     value |-> Round(result.fng, 1),
     label |-> result.label,
     components |-> [rsi     |-> Round(result.scores.rsi, 2),
                     mom     |-> Round(result.scores.mom, 2),
                     vol     |-> Round(result.scores.vol, 2),
                     volm    |-> Round(result.scores.volm, 2),
                     funding |-> Round(result.scores.funding, 2),
                     oi      |-> Round(result.scores.oi, 2)]]

\* the dict /api/fng-components returns
ComponentsBody ==
    [coin    |-> req.symbol,
     tf      |-> req.tf,
     value   |-> Round(result.fng, 1),
     label   |-> result.label,
     weights |-> result.weights,
     scores  |-> result.scores,
     raw     |-> result.raw]

\* the handlers without their check of tf
ValidateNoTf ==
    /\ pc = "start"
    /\ req.route \in {"fng", "components"}
    /\ IF req.install_id = ""
       THEN /\ resp' = [status |-> 400, kind |-> "missing_install_id"]
            /\ pc' = "done"
       ELSE /\ resp' = resp
            /\ pc' = "gate"
    /\ UNCHANGED <<pct, fngVars, req, supabase, gate, values>>

\* fng and fng_components up to the gate: the timeframe, then X-Install-Id
Validate ==
    /\ pc = "start"
    /\ req.route \in {"fng", "components"}
    /\ IF req.tf \notin VALID_TF
       THEN /\ resp' = [status |-> 400, kind |-> "invalid_tf"]
            /\ pc' = "done"
       ELSE IF req.install_id = ""
       THEN /\ resp' = [status |-> 400, kind |-> "missing_install_id"]
            /\ pc' = "done"
       ELSE /\ resp' = resp
            /\ pc' = "gate"
    /\ UNCHANGED <<pct, fngVars, req, supabase, gate, values>>

\* consume_pair_access_or_raise inside the handler's try: without a Supabase
\* client it returns at once; else the RPC answers ok, answers not ok (402)
\* or raises (500).  Only a normal return lets the handler go on to compute.
Gate ==
    /\ pc = "gate"
    /\ \/ /\ ~supabase
          /\ gate' = "skipped"
          /\ pc' = "klines"
          /\ call' = [symbol |-> req.symbol, tf |-> req.tf]
          /\ resp' = resp
       \/ /\ supabase
          /\ gate' = "ok"
          /\ pc' = "klines"
          /\ call' = [symbol |-> req.symbol, tf |-> req.tf]
          /\ resp' = resp
       \/ /\ supabase
          /\ gate' = "denied"
          /\ pc' = "done"
          /\ call' = call
          /\ resp' = [status |-> 402, kind |-> "payment_required"]
       \/ /\ supabase
          /\ gate' = "error"
          /\ pc' = "done"
          /\ call' = call
          /\ resp' = [status |-> 500, kind |-> "gate_error"]
    /\ UNCHANGED <<pct, df, base, funding, oi_pack, result, fetched, outcome,
                   req, supabase, values>>

\* fng and fng_components after compute_fng: the dict, or on any exception
\* a JSON error with status 500
Respond ==
    /\ pc \in {"returned", "raised"}
    /\ req.route \in {"fng", "components"}
    /\ resp' = IF pc = "raised"
               THEN [status |-> 500, kind |-> "compute_error"]
               ELSE [status |-> 200, kind |-> "ok",
                     body |-> IF req.route = "fng" THEN FngBody ELSE ComponentsBody]
    /\ pc' = "done"
    /\ UNCHANGED <<pct, fngVars, req, supabase, gate, values>>

\* fng_quad: the next timeframe of the loop calls compute_fng
QuadCompute ==
    /\ pc \in {"start", "quad"}
    /\ req.route = "quad"
    /\ Len(values) < Len(tfs)
    /\ call' = [symbol |-> req.symbol, tf |-> tfs[Len(values) + 1]]
    /\ pc' = "klines"
    /\ UNCHANGED <<pct, df, base, funding, oi_pack, result, fetched, outcome, routeVars>>

\* fng_quad: values[tf] from what compute_fng returned, or on any exception
\* the neutral entry.  The field "by" records which of the two it was, and
\* "klines" how the price fetch of that timeframe had ended.
\* compute_fng's frame, with its locals, is gone once it has returned.
QuadCollect ==
    /\ pc \in {"returned", "raised"}
    /\ req.route = "quad"
    /\ values' = Append(values,
                   IF pc = "raised"
                   THEN [tf |-> call.tf, value |-> I(50), label |-> "Neutral",
                         by |-> "except", klines |-> outcome.klines]
                   ELSE [tf |-> call.tf, value |-> result.fng, label |-> result.label,
                         by |-> "compute_fng", klines |-> outcome.klines])
    /\ df' = Unset
    /\ base' = Unset
    /\ funding' = Unset
    /\ oi_pack' = Unset
    /\ result' = Unset
    /\ outcome' = NoOutcome
    /\ pc' = "quad"
    /\ UNCHANGED <<pct, call, fetched, req, supabase, gate, resp>>

\* fng_quad: the four gauges as one SVG
QuadRender ==
    /\ pc = "quad"
    /\ req.route = "quad"
    /\ Len(values) = Len(tfs)
    /\ resp' = [status |-> 200, kind |-> "svg", body |-> values]
    /\ pc' = "done"
    /\ UNCHANGED <<pct, fngVars, req, supabase, gate, values>>

\* ------------------------------------------------------------------------
\* Spec: one request to one of the three routes
\* ------------------------------------------------------------------------
\* the exchange's answers while a route is served: a few of Frames,
\* FundingFeeds and OiFrames
RouteFrames ==
    {Frame(n, <<"up", "const">>, 1, 1) : n \in {1, RsiWindow - 1, RollWindow}}

RouteFundingFeeds == {<<I(0), <<I(-1), I(0)>>>>}

RouteOiFrames == {[i \in 1..OiMinPeriods |-> OiAt("ramp", i)]}

Requests ==
    [route : {"fng", "components"}, symbol : Symbols, tf : {"1d", "15m", "5m", ""},
     install_id : {"", "inst-1"}]
    \cup [route : {"quad"}, symbol : Symbols, tf : {"-"}, install_id : {""}]

Init ==
    /\ pct = NoPct
    /\ pc = "start"
    /\ req \in Requests
    /\ supabase \in BOOLEAN
    /\ gate = "-"
    /\ values = <<>>
    /\ resp = NoResp
    /\ call = Unset
    /\ df = Unset
    /\ base = Unset
    /\ funding = Unset
    /\ oi_pack = Unset
    /\ result = Unset
    /\ fetched = <<>>
    /\ outcome = NoOutcome

Next ==
    \/ Validate
    \/ Gate
    \/ Klines(RouteFrames)
    \/ BaseScores
    \/ FundingScore(RouteFundingFeeds)
    \/ OiScore(RouteOiFrames)
    \/ Combine
    \/ Respond
    \/ QuadCompute
    \/ QuadCollect
    \/ QuadRender

Spec == Init /\ [][Next]_vars

\* ------------------------------------------------------------------------
\* SpecPct: percentile applied to every sample and value within the bounds
\* ------------------------------------------------------------------------
PctVals == {NaN, PInf, NInf} \cup {I(i) : i \in -1..MaxVal}

PctSamples == UNION {[1..m -> PctVals] : m \in 0..MaxLen}

PctInit ==
    /\ \E s \in PctSamples, x \in PctVals, y \in PctVals :
         pct = [at |-> "call", sample |-> s, x |-> x, y |-> y, rx |-> NaN, ry |-> NaN]
    /\ pc = "idle"
    /\ call = Unset
    /\ df = Unset
    /\ base = Unset
    /\ funding = Unset
    /\ oi_pack = Unset
    /\ result = Unset
    /\ fetched = <<>>
    /\ outcome = NoOutcome
    /\ req = Unset
    /\ supabase = FALSE
    /\ gate = "-"
    /\ values = <<>>
    /\ resp = NoResp

\* two calls on the same sample, percentile(sample, x) and percentile(sample, y)
PctApply ==
    /\ pct.at = "call"
    /\ pct' = [pct EXCEPT !.at = "done",
                          !.rx = percentile(pct.sample, pct.x),
                          !.ry = percentile(pct.sample, pct.y)]
    /\ UNCHANGED <<pc, fngVars, routeVars>>

PctNext == PctApply

SpecPct == PctInit /\ [][PctNext]_vars

\* ------------------------------------------------------------------------
\* Claims
\* ------------------------------------------------------------------------
Labels == {"Extreme Fear", "Fear", "Neutral", "Greed", "Extreme Greed"}

InUnit(a)    == Leq(I(0), a) /\ Leq(a, I(1))
InHundred(a) == Leq(I(0), a) /\ Leq(a, Hundred)

\* the four price-derived sub-scores of the result are those of the frame
BaseScoresOfFrame ==
    LET b == compute_base_scores(df, result.raw.rsi_raw)
    IN  /\ result.scores.rsi = b.rsi
        /\ result.scores.mom = b.mom
        /\ result.scores.vol = b.vol
        /\ result.scores.volm = b.volm

\* C1: whenever the funding computation fails, compute_fng returns with
\* funding score 50, rate 0 and rank 0.5, an index in [0,100], a label, and
\* the four price-derived sub-scores the frame gives.
C1_FundingFailureNeutral ==
    (pc = "returned" /\ outcome.funding = "raised") =>
        /\ result.scores.funding = I(50)
        /\ result.raw.funding_now = I(0)
        /\ result.raw.funding_p = Half
        /\ InHundred(result.fng)
        /\ result.label \in Labels
        /\ BaseScoresOfFrame

\* the result reports the sub-scores compute_fng holds in base and funding
ReportsHeldScores ==
    /\ result.scores.rsi = base.rsi
    /\ result.scores.mom = base.mom
    /\ result.scores.vol = base.vol
    /\ result.scores.volm = base.volm
    /\ result.scores.funding = funding.score

\* C2: whenever the open-interest history is empty or its fetch fails,
\* compute_fng goes on to return, with open-interest score 50, oi_delta 50
\* and oi_cur 0; the open-interest step, however it ends, changes neither
\* the funding sub-score nor the price-derived ones, and the result reports
\* them as they were before it.
C2_OiFailureNeutral ==
    /\ [](outcome.oi \in {"raised", "empty"} =>
            /\ pc \in {"combine", "returned"}
            /\ oi_pack.oi = I(50)
            /\ oi_pack.oi_delta = I(50)
            /\ oi_pack.oi_cur = I(0)
            /\ pc = "returned" =>
                 /\ result.scores.oi = I(50)
                 /\ result.raw.oi_pack.oi_delta = I(50)
                 /\ result.raw.oi_pack.oi_cur = I(0)
                 /\ ReportsHeldScores)
    /\ [][pc = "oi" => (pc' = "combine" /\ base' = base /\ funding' = funding)]_vars

C2_Witness ==
    /\ pc = "returned"
    /\ outcome.oi = "raised"
    /\ outcome.funding = "ok"
    /\ result.scores.funding # I(50)
    /\ result.scores.oi = I(50)

\* a price fetch of this request raised
PriceFetchFailed ==
    \/ outcome.klines = "raised"
    \/ \E i \in 1..Len(values) : values[i].klines = "raised"

\* C3: a request whose price fetch failed ends in an error response, on
\* every route.
C3_PriceFailureFatal ==
    (pc = "done" /\ PriceFetchFailed) => resp.status >= 400

\* C4: the exchange is called, and compute_fng runs, only in a request the
\* gate has let through; a denial is answered 402 with nothing fetched.
C4_GateBeforeCompute ==
    /\ (Len(fetched) > 0 \/ pc \in {"klines", "base", "funding", "oi", "combine"})
           => gate \in {"ok", "skipped"}
    /\ gate = "denied" => (resp.status = 402 /\ Len(fetched) = 0)

\* the symbols of the form the exchange uses: upper-case letters and digits
WellFormed == {"SOLUSDT"}

\* C5 as stated: an invalid timeframe or an ill-formed symbol is rejected
\* as a validation error before anything is fetched.
C5_InvalidInputRejected ==
    ((req.route \in {"fng", "components"} /\ req.tf \notin VALID_TF)
         \/ req.symbol \notin WellFormed) =>
        /\ Len(fetched) = 0
        /\ pc = "done" => resp.kind \notin {"ok", "svg", "compute_error"}

\* C5 as amended: on /api/fng and /api/fng-components an invalid timeframe
\* is answered 400 before the gate is consulted and before anything is
\* fetched.
C5_InvalidTfRejected ==
    (req.route \in {"fng", "components"} /\ req.tf \notin VALID_TF) =>
        /\ Len(fetched) = 0
        /\ gate = "-"
        /\ pc \in {"start", "done"}
        /\ pc = "done" => (resp.status = 400 /\ resp.kind = "invalid_tf")

C5_Witness ==
    /\ pc = "done"
    /\ req.tf = "5m"
    /\ req.install_id # ""
    /\ supabase
    /\ resp.status = 400

\* C6: the label is the one the boundary table gives for the index:
\* below 25 Extreme Fear, [25,45) Fear, [45,55] Neutral, (55,76) Greed,
\* from 76 Extreme Greed.
C6_LabelTable ==
    pc = "returned" =>
        LET v == result.fng
            l == result.label
        IN  /\ l \in Labels
            /\ Lt(v, I(25)) => l = "Extreme Fear"
            /\ (Leq(I(25), v) /\ Lt(v, I(45))) => l = "Fear"
            /\ (Leq(I(45), v) /\ Leq(v, I(55))) => l = "Neutral"
            /\ (Lt(I(55), v) /\ Lt(v, I(76))) => l = "Greed"
            /\ Leq(I(76), v) => l = "Extreme Greed"

C6_Witness ==
    /\ pc = "returned"
    /\ result.fng = I(55)
    /\ result.label = "Neutral"

\* C7: every returned index is a number in [0,100], the clamped weighted sum
\* of six sub-scores none of which is NaN, under weights that sum to 1.
C7_IndexDefined ==
    pc = "returned" =>
        LET sc == result.scores
            sum == Add(Add(Add(Add(Add(Mul(Fin(25, 100), sc.rsi),
                                       Mul(Fin(20, 100), sc.mom)),
                                   Mul(Fin(15, 100), sc.vol)),
                               Mul(Fin(15, 100), sc.volm)),
                           Mul(Fin(15, 100), sc.funding)),
                       Mul(Fin(10, 100), sc.oi))
        IN  /\ \A f \in DOMAIN sc : ~IsNaN(sc[f])
            /\ IsFin(result.fng)
            /\ InHundred(result.fng)
            /\ result.fng = IF Lt(sum, I(0)) THEN I(0)
                            ELSE IF Lt(Hundred, sum) THEN Hundred ELSE sum
            /\ Add(Add(Add(Add(Add(result.weights.rsi, result.weights.mom),
                               result.weights.vol), result.weights.volm),
                       result.weights.funding), result.weights.oi) = I(1)

\* C8 as stated: 0.5 for an empty sample or a NaN or infinite x, else the
\* fraction of the sample that is <= x; always in [0,1], non-decreasing in
\* x, and 1 when x is the maximum of the sample.
IsMaxOf(x, sample) ==
    /\ \E i \in 1..Len(sample) : sample[i] = x
    /\ \A i \in 1..Len(sample) : Leq(sample[i], x)

PctByDefinition ==
    /\ (Len(pct.sample) = 0 \/ ~IsFin(pct.x)) => pct.rx = Half
    /\ (Len(pct.sample) > 0 /\ IsFin(pct.x)) =>
          pct.rx = Fin(Cardinality({i \in 1..Len(pct.sample) : Leq(pct.sample[i], pct.x)}),
                       Len(pct.sample))
    /\ InUnit(pct.rx)

C8_PercentileAsStated ==
    pct.at = "done" =>
        /\ PctByDefinition
        /\ Leq(pct.x, pct.y) => Leq(pct.rx, pct.ry)
        /\ IsMaxOf(pct.x, pct.sample) => pct.rx = I(1)

\* C8 as amended: the same, with non-decreasing in x over the finite x, and
\* 1 when x is the finite maximum of the sample.
C8_PercentileFinite ==
    pct.at = "done" =>
        /\ PctByDefinition
        /\ (IsFin(pct.x) /\ IsFin(pct.y) /\ Leq(pct.x, pct.y)) => Leq(pct.rx, pct.ry)
        /\ (IsFin(pct.x) /\ IsMaxOf(pct.x, pct.sample)) => pct.rx = I(1)

C8_Witness ==
    /\ pct.at = "done"
    /\ Len(pct.sample) = MaxLen
    /\ IsFin(pct.x)
    /\ IsMaxOf(pct.x, pct.sample)
    /\ \E i \in 1..Len(pct.sample) : pct.sample[i] = NInf
    /\ IsFin(pct.y)
    /\ Lt(pct.y, pct.x)
    /\ Lt(pct.ry, pct.rx)
    /\ pct.rx = I(1)

\* C9: with fewer than 14 candles compute_base_scores raises: compute_fng
\* never gets past it.
C9_ShortSeriesRaises ==
    (outcome.klines = "ok" /\ Len(df.c) < RsiWindow /\ pc # "base") => pc = "raised"

\* C10: the volatility sub-score compute_base_scores returns is base = (1 - p) * 100, p being 0.5 with
\* fewer than 30 returns and else the rank of the current rolling volatility
\* among the latest 180; unchanged when the latest return is >= 0, and
\* 0.5*base + 0.5*(100 - base) when it is negative; always in [0,100].
C10_Volatility ==
    pc = "funding" =>
        LET rets == Rets(df)
            r1   == rets[Len(rets)]
            vh   == TailSlice(VolHist(rets), VolTail)
            p    == IF Len(rets) < RollWindow THEN Half
                    ELSE Fin(Cardinality({j \in 1..Len(vh) : Leq(vh[j], vh[Len(vh)])}),
                             Len(vh))
            b    == Mul(Sub(I(1), p), Hundred)
        IN  /\ r1 >= 0 => base.vol = b
            /\ r1 < 0 => base.vol = Add(Mul(Half, b), Mul(Half, Sub(Hundred, b)))
            /\ InHundred(base.vol)

C10_Witness ==
    /\ pc = "funding"
    /\ Len(Rets(df)) >= RollWindow
    /\ Last(Rets(df)) < 0
    /\ PVol(Rets(df)) # Half
    /\ base.vol = I(50)

====
